---- MODULE Spec2Model ----
(***************************************************************************)
(* Model of the two operational scripts of model-rift-ops:                 *)
(*   src/examples/test_inference.py          (the endpoint test client)    *)
(*   src/infrastructure/mlflow/start-mlflow.py   (the MLflow launcher)     *)
(* One run executes exactly one of the two scripts; `program` says which.  *)
(* Python's Optional values are sequences of length 0 (None) or 1.         *)
(***************************************************************************)
EXTENDS Integers, Sequences, FiniteSets, TLC

VARIABLES
    program,            \* which script this run executes
    \* ---- test_inference.py ----
    cpc,                \* position in main()/test_inference()
    num_samples,        \* args.samples
    i,                  \* loop variable of the generation loop (line 48)
    samples,            \* list of generated vectors
    labels,             \* list of labels
    fraud_args,         \* the fraud= argument of each generate_sample_transaction call
    sent,               \* payloads handed to requests.post, in order
    response,           \* Optional response object
    exc,                \* Optional exception raised inside the try block
    predictions,        \* result.get("predictions", [])
    k,                  \* number of (pred, label) pairs consumed by the display loop
    out,                \* lines printed by the client
    cexit,              \* Optional exit status of the client
    \* ---- start-mlflow.py ----
    lpc,                \* position in the launcher's module body
    env0,               \* os.environ when the launcher starts
    env,                \* os.environ
    backend_store_uri,  \* Optional string (line 23)
    cmd,                \* the argument list (line 28)
    lout,               \* lines printed by the launcher
    execs,              \* os.execvp calls made: file, argv and environment handed over
    lexit               \* Optional exit status of the launcher

cvars == <<cpc, num_samples, i, samples, labels, fraud_args, sent, response, exc,
           predictions, k, out, cexit>>
lvars == <<lpc, env0, env, backend_store_uri, cmd, lout, execs, lexit>>
vars == <<program, cvars, lvars>>

None == <<>>
Some(x) == <<x>>
Min(a, b) == IF a < b THEN a ELSE b

(***************************************************************************)
(* Bounds of the model.                                                    *)
(***************************************************************************)
MaxSamples == 4
MaxNegSamples == 1
MaxPreds == 3

(***************************************************************************)
(*                      test_inference.py                                  *)
(***************************************************************************)
NumVFeatures == 28
DefaultSamples == 5
RequestTimeout == 30
StatusOK == 200

SampleArgs == (0 - MaxNegSamples)..MaxSamples

\* generate_sample_transaction: the random draws are kept as the name of the
\* distribution they come from; np.append adds the amount after V1..V28.
GenNoAmount(fraud) ==
    [n \in 1..NumVFeatures |-> IF fraud THEN "randn+2" ELSE "randn"]

generate_sample_transaction(fraud) ==
    LET features == [n \in 1..NumVFeatures |-> IF fraud THEN "randn+2" ELSE "randn"]
        amount == IF fraud THEN "gamma(3,100)" ELSE "gamma(2,50)"
    IN Append(features, amount)

IsFraudOffByOne(idx) == (idx + 1) % 3 = 0

\* line 49
IsFraud(idx) == idx % 3 = 0

\* line 51
Label(is_fraud) == IF is_fraud THEN "Fraud-like" ELSE "Normal-like"

RECURSIVE Pad(_, _)
\* format spec 12s of line 84: pad with spaces on the right up to the width
Pad(s, width) == IF Len(s) >= width THEN s ELSE Pad(s \o " ", width)

LabelWidth == 12

\* A printed line: which print statement, and the values it interpolates.
Line(kind, n, s, p) == [kind |-> kind, n |-> n, s |-> s, p |-> p]
L(kind) == Line(kind, 0, "", "")

\* JSON values of a prediction entry. Numbers are in millionths.
Num(v) == [t |-> "num", v |-> v, items |-> <<>>]
Str(s) == [t |-> "str", v |-> 0, items |-> <<>>]
List(s) == [t |-> "list", v |-> 0, items |-> s]

PredEntries ==
    { Num(987654),
      Num(150),
      Num(0 - 50),
      List(<<Num(876544), Num(123456)>>),
      List(<<Num(500000)>>),
      Str("0.5"),
      List(<<Num(1), Str("high")>>) }

RECURSIVE SeqsUpTo(_, _)
SeqsUpTo(S, n) ==
    IF n = 0 THEN {<<>>}
    ELSE LET shorter == SeqsUpTo(S, n - 1)
         IN shorter \cup {Append(s, x) : s \in {q \in shorter : Len(q) = n - 1}, x \in S}

\* What response.json() can yield.
Json(shape, has, iterable, preds) ==
    [shape |-> shape, has_predictions |-> has, iterable |-> iterable, preds |-> preds]

JsonBodies ==
    { Json("invalid", FALSE, FALSE, <<>>),      \* body is not JSON
      Json("array", FALSE, FALSE, <<>>),        \* JSON, but not an object
      Json("object", FALSE, TRUE, <<>>),        \* object without "predictions"
      Json("object", TRUE, FALSE, <<>>) }       \* "predictions": null
    \cup { Json("object", TRUE, TRUE, ps) : ps \in SeqsUpTo(PredEntries, MaxPreds) }

Response(status, text, json) == [status_code |-> status, text |-> text, json |-> json]

Responses ==
    { Response(StatusOK, "body", j) : j \in JsonBodies }
    \cup { Response(s, t, Json("invalid", FALSE, FALSE, <<>>)) :
             s \in {404, 500, 503}, t \in {"", "model not ready"} }

\* Exceptions. Mro gives the classes an exception is an instance of, for the
\* classes the try block of lines 61-93 raises.
Exc(cls, code) == [cls |-> cls, code |-> code]

Mro(cls) ==
    CASE cls = "ConnectionError" ->
            {"ConnectionError", "RequestException", "OSError", "Exception", "BaseException"}
      [] cls = "ConnectTimeout" ->
            {"ConnectTimeout", "ConnectionError", "Timeout", "RequestException",
             "OSError", "Exception", "BaseException"}
      [] cls = "ReadTimeout" ->
            {"ReadTimeout", "Timeout", "RequestException", "OSError", "Exception",
             "BaseException"}
      [] cls = "InvalidURL" ->
            {"InvalidURL", "RequestException", "OSError", "ValueError", "Exception",
             "BaseException"}
      [] cls = "JSONDecodeError" ->
            {"JSONDecodeError", "RequestException", "OSError", "ValueError", "Exception",
             "BaseException"}
      [] cls = "SSLError" ->
            {"SSLError", "ConnectionError", "RequestException", "OSError", "Exception",
             "BaseException"}
      [] cls = "ProxyError" ->
            {"ProxyError", "ConnectionError", "RequestException", "OSError", "Exception",
             "BaseException"}
      [] cls = "AttributeError" -> {"AttributeError", "Exception", "BaseException"}
      [] cls = "TypeError" -> {"TypeError", "Exception", "BaseException"}
      [] cls = "IndexError" ->
            {"IndexError", "LookupError", "Exception", "BaseException"}
      [] cls = "ValueError" -> {"ValueError", "Exception", "BaseException"}
      [] cls = "SystemExit" -> {"SystemExit", "BaseException"}
      [] cls = "KeyboardInterrupt" -> {"KeyboardInterrupt", "BaseException"}

IsInstance(e, cls) == cls \in Mro(e.cls)

\* Exceptions that can come out of the requests.post call; KeyboardInterrupt is
\* the SIGINT delivered while the call blocks.
PostExceptions ==
    {"ConnectionError", "ConnectTimeout", "ReadTimeout", "InvalidURL", "SSLError",
     "ProxyError", "KeyboardInterrupt"}

HandlerTimeoutFirst(e) ==
    IF IsInstance(e, "Timeout") THEN "Timeout"
    ELSE IF IsInstance(e, "ConnectionError") THEN "ConnectionError"
    ELSE IF IsInstance(e, "Exception") THEN "Exception"
    ELSE "none"

HandlerBareExcept(e) ==
    IF IsInstance(e, "ConnectionError") THEN "ConnectionError"
    ELSE IF IsInstance(e, "Timeout") THEN "Timeout"
    ELSE "Exception"

\* The except clauses of lines 95, 102, 106, tried in source order.
Handler(e) ==
    IF IsInstance(e, "ConnectionError") THEN "ConnectionError"
    ELSE IF IsInstance(e, "Timeout") THEN "Timeout"
    ELSE IF IsInstance(e, "Exception") THEN "Exception"
    ELSE "none"

\* line 83: the value chosen for display, or the exception the expression raises.
FraudProb(pred) ==
    IF pred.t = "num" THEN [raises |-> "", val |-> pred]
    ELSE IF pred.t = "list"
         THEN IF Len(pred.items) >= 2
              THEN [raises |-> "", val |-> pred.items[2]]
              ELSE [raises |-> "IndexError", val |-> pred]
    ELSE [raises |-> "", val |-> pred]

\* 2^t modulo 625 for the shifts a double's 53-bit mantissa needs
Pow2Mod625[t \in 0..127] == IF t = 0 THEN 1 ELSE (2 * Pow2Mod625[t - 1]) % 625

RECURSIVE Log2Floor(_, _, _)
\* the p with 2^p <= num/den < 2^(p+1)
Log2Floor(num, den, p) ==
    IF num >= 2 * den THEN Log2Floor(num, 2 * den, p + 1)
    ELSE IF num < den THEN Log2Floor(2 * num, den, p - 1)
    ELSE p

\* Ten-thousandths shown for the double nearest to a/10^6, a >= 0. format
\* rounds the exact binary value of the double. Off a decimal tie the double
\* is on the same side as a/10^6. On a decimal tie a = 100n + 50 the value is
\* (2n+1)/(2^5 * 625): its 53-bit mantissa is (2n+1) * 2^t / 625 rounded, with
\* t = 47 - p, and the remainder of that division says whether the double
\* lies below the tie, above it, or (remainder 0) on it, where the even
\* neighbour is taken.
RoundedMagnitude(a) ==
    LET n == a \div 100
        odd == 2 * n + 1
        t == 47 - Log2Floor(odd, 20000, 0)
        r == ((odd % 625) * Pow2Mod625[t]) % 625
    IN IF a % 100 # 50 THEN (a + 50) \div 100
       ELSE IF r = 0 THEN (IF n % 2 = 0 THEN n ELSE n + 1)
       ELSE IF 2 * r < 625 THEN n
       ELSE n + 1

\* One decimal digit of m: the one worth 10^e
Digit(m, e) == ToString((m \div (10 ^ e)) % 10)

\* The text of a number of ten-thousandths m with sign: sign, integer part,
\* point, four digits.
FixedText(negative, m) ==
    (IF negative THEN "-" ELSE "") \o ToString(m \div 10000) \o "."
        \o Digit(m, 3) \o Digit(m, 2) \o Digit(m, 1) \o Digit(m, 0)

\* line 84: format spec .4f. Only numbers accept the format code. Numbers are
\* finite, given in millionths.
Format4f(val) ==
    IF val.t = "num"
    THEN [raises |-> "",
          shown |-> FixedText(val.v < 0, RoundedMagnitude(IF val.v < 0 THEN 0 - val.v ELSE val.v))]
    ELSE IF val.t = "str" THEN [raises |-> "ValueError", shown |-> ""]
    ELSE [raises |-> "TypeError", shown |-> ""]

\* zip(predictions, labels) stops at the shorter of the two.
ZipLen(ps, ls) == Min(Len(ps), Len(ls))

ClientInit ==
    /\ cpc = "start"
    /\ num_samples \in SampleArgs \cup {DefaultSamples}
    /\ i = 0
    /\ samples = <<>>
    /\ labels = <<>>
    /\ fraud_args = <<>>
    /\ sent = <<>>
    /\ response = None
    /\ exc = None
    /\ predictions = <<>>
    /\ k = 0
    /\ out = <<>>
    /\ cexit = None

ClientIdle ==
    /\ cpc = "not_run"
    /\ num_samples = 0
    /\ i = 0
    /\ samples = <<>>
    /\ labels = <<>>
    /\ fraud_args = <<>>
    /\ sent = <<>>
    /\ response = None
    /\ exc = None
    /\ predictions = <<>>
    /\ k = 0
    /\ out = <<>>
    /\ cexit = None

\* lines 38-47
PrintHeader ==
    /\ program = "client" /\ cpc = "start"
    /\ out' = out \o <<L("title"), L("rule="), L("endpoint"),
                       Line("samples", num_samples, "", ""), L("rule="), L("blank")>>
    /\ samples' = <<>> /\ labels' = <<>>
    /\ i' = 0
    /\ cpc' = "generate"
    /\ UNCHANGED <<program, num_samples, fraud_args, sent, response, exc, predictions,
                   k, cexit, lvars>>

\* lines 48-51, one iteration of range(num_samples)
GenerateSample ==
    /\ program = "client" /\ cpc = "generate"
    /\ i < num_samples
    /\ LET is_fraud == IsFraud(i)
       IN /\ samples' = Append(samples, generate_sample_transaction(is_fraud))
          /\ fraud_args' = Append(fraud_args, is_fraud)
          /\ labels' = Append(labels, Label(is_fraud))
    /\ i' = i + 1
    /\ UNCHANGED <<program, cpc, num_samples, sent, response, exc, predictions, k, out,
                   cexit, lvars>>

\* lines 54-68: range exhausted, payload built, requests.post called
Post ==
    /\ program = "client" /\ cpc = "generate"
    /\ ~(i < num_samples)
    /\ out' = out \o <<Line("sending", num_samples, "", ""), L("blank")>>
    /\ sent' = Append(sent, [instances |-> samples, timeout |-> RequestTimeout])
    /\ cpc' = "posting"
    /\ UNCHANGED <<program, num_samples, i, samples, labels, fraud_args, response, exc,
                   predictions, k, cexit, lvars>>

\* The result of the requests.post call of lines 63-68.
PostOutcome(r, e) ==
    /\ response' = r
    /\ exc' = e
    /\ cpc' = IF e = None THEN "check_status" ELSE "except"

\* lines 63-68: the call comes back, with a response or an exception. The
\* timeout bounds each socket operation, not the call: it need not come back.
PostReturns ==
    /\ program = "client" /\ cpc = "posting"
    /\ \/ \E r \in Responses : PostOutcome(Some(r), None)
       \/ \E c \in PostExceptions : PostOutcome(None, Some(Exc(c, 0)))
    /\ UNCHANGED <<program, num_samples, i, samples, labels, fraud_args, sent,
                   predictions, k, out, cexit, lvars>>

\* lines 71-73 and 90-93
CheckStatus ==
    /\ program = "client" /\ cpc = "check_status"
    /\ LET r == response[1]
       IN IF r.status_code = StatusOK
          THEN /\ out' = out \o <<L("request_ok"), L("blank")>>
               /\ cpc' = "parse"
               /\ exc' = exc
          ELSE /\ out' = out \o <<Line("failed_status", r.status_code, "", ""),
                                  Line("response_text", 0, r.text, "")>>
               /\ exc' = Some(Exc("SystemExit", 1))
               /\ cpc' = "except"
    /\ UNCHANGED <<program, num_samples, i, samples, labels, fraud_args, sent, response,
                   predictions, k, cexit, lvars>>

\* lines 76-82 up to the construction of zip(predictions, labels)
ParseResponse ==
    /\ program = "client" /\ cpc = "parse"
    /\ LET j == response[1].json
       IN IF j.shape = "invalid"
          THEN /\ exc' = Some(Exc("JSONDecodeError", 0))
               /\ cpc' = "except"
               /\ UNCHANGED <<out, predictions>>
          ELSE IF j.shape # "object"
          THEN /\ exc' = Some(Exc("AttributeError", 0))
               /\ cpc' = "except"
               /\ UNCHANGED <<out, predictions>>
          ELSE /\ predictions' = IF j.has_predictions THEN j.preds ELSE <<>>
               /\ out' = out \o <<L("results_title"), L("rule-")>>
               /\ IF j.iterable
                  THEN cpc' = "display" /\ exc' = exc
                  ELSE cpc' = "except" /\ exc' = Some(Exc("TypeError", 0))
    /\ k' = 0
    /\ UNCHANGED <<program, num_samples, i, samples, labels, fraud_args, sent, response,
                   cexit, lvars>>

\* lines 82-84, one iteration of the display loop
DisplayPrediction ==
    /\ program = "client" /\ cpc = "display"
    /\ k < ZipLen(predictions, labels)
    /\ LET pred == predictions[k + 1]
           label == labels[k + 1]
           fp == FraudProb(pred)
           shown == Format4f(fp.val)
       IN IF fp.raises # ""
          THEN /\ exc' = Some(Exc(fp.raises, 0)) /\ cpc' = "except"
               /\ UNCHANGED <<out, k>>
          ELSE IF shown.raises # ""
          THEN /\ exc' = Some(Exc(shown.raises, 0)) /\ cpc' = "except"
               /\ UNCHANGED <<out, k>>
          ELSE /\ out' = Append(out, Line("prediction", k + 1, Pad(label, LabelWidth), shown.shown))
               /\ k' = k + 1
               /\ UNCHANGED <<exc, cpc>>
    /\ UNCHANGED <<program, num_samples, i, samples, labels, fraud_args, sent, response,
                   predictions, cexit, lvars>>

\* lines 86-88, then test_inference and main return: the interpreter exits 0
FinishSuccess ==
    /\ program = "client" /\ cpc = "display"
    /\ ~(k < ZipLen(predictions, labels))
    /\ out' = out \o <<L("rule-"), L("blank"), L("all_completed")>>
    /\ cpc' = "exited"
    /\ cexit' = Some(0)
    /\ UNCHANGED <<program, num_samples, i, samples, labels, fraud_args, sent, response,
                   exc, predictions, k, lvars>>

ExceptTimeoutNoExit ==
    /\ program = "client" /\ cpc = "except"
    /\ Handler(exc[1]) = "Timeout"
    /\ out' = Append(out, L("timeout"))
    /\ cpc' = "exited"
    /\ cexit' = Some(0)
    /\ UNCHANGED <<program, num_samples, i, samples, labels, fraud_args, sent, response,
                   exc, predictions, k, lvars>>

ExceptTimeoutRetry ==
    /\ program = "client" /\ cpc = "except"
    /\ Handler(exc[1]) = "Timeout"
    /\ out' = Append(out, L("timeout"))
    /\ IF Len(sent) < 2
       THEN cpc' = "generate" /\ cexit' = cexit
       ELSE cpc' = "exited" /\ cexit' = Some(1)
    /\ UNCHANGED <<program, num_samples, i, samples, labels, fraud_args, sent, response,
                   exc, predictions, k, lvars>>

\* lines 95-100
ExceptConnectionError ==
    /\ program = "client" /\ cpc = "except"
    /\ Handler(exc[1]) = "ConnectionError"
    /\ out' = out \o <<L("connection_error"), L("blank"), L("port_forward_intro"),
                       L("port_forward_hint")>>
    /\ cpc' = "exited"
    /\ cexit' = Some(1)
    /\ UNCHANGED <<program, num_samples, i, samples, labels, fraud_args, sent, response,
                   exc, predictions, k, lvars>>

\* lines 102-104
ExceptTimeout ==
    /\ program = "client" /\ cpc = "except"
    /\ Handler(exc[1]) = "Timeout"
    /\ out' = Append(out, L("timeout"))
    /\ cpc' = "exited"
    /\ cexit' = Some(1)
    /\ UNCHANGED <<program, num_samples, i, samples, labels, fraud_args, sent, response,
                   exc, predictions, k, lvars>>

\* lines 106-108
ExceptException ==
    /\ program = "client" /\ cpc = "except"
    /\ Handler(exc[1]) = "Exception"
    /\ out' = Append(out, Line("error", 0, exc[1].cls, ""))
    /\ cpc' = "exited"
    /\ cexit' = Some(1)
    /\ UNCHANGED <<program, num_samples, i, samples, labels, fraud_args, sent, response,
                   exc, predictions, k, lvars>>

\* line 93: the SystemExit no clause catches leaves test_inference and main;
\* the interpreter exits with its code.
PropagateSystemExit ==
    /\ program = "client" /\ cpc = "except"
    /\ Handler(exc[1]) = "none" /\ exc[1].cls = "SystemExit"
    /\ cpc' = "exited"
    /\ cexit' = Some(exc[1].code)
    /\ UNCHANGED <<program, num_samples, i, samples, labels, fraud_args, sent, response,
                   exc, predictions, k, out, lvars>>

\* lines 95-108: an exception no clause catches that is no SystemExit (the
\* KeyboardInterrupt) leaves main; the interpreter prints the traceback and
\* ends the process by SIGINT, status -2.
PropagateInterrupt ==
    /\ program = "client" /\ cpc = "except"
    /\ Handler(exc[1]) = "none" /\ exc[1].cls # "SystemExit"
    /\ out' = Append(out, Line("traceback", 0, exc[1].cls, ""))
    /\ cpc' = "exited"
    /\ cexit' = Some(0 - 2)
    /\ UNCHANGED <<program, num_samples, i, samples, labels, fraud_args, sent, response,
                   exc, predictions, k, lvars>>

(***************************************************************************)
(*                         start-mlflow.py                                 *)
(***************************************************************************)
EnvNames ==
    {"AWS_ACCESS_KEY_ID", "AWS_SECRET_ACCESS_KEY", "MLFLOW_BACKEND_STORE_URI",
     "AWS_DEFAULT_REGION", "AWS_REGION", "MLFLOW_PORT"}

\* Values each variable may hold when the launcher starts, if it is set.
EnvValues(name) ==
    CASE name = "AWS_ACCESS_KEY_ID" -> {"", "AKIAEXAMPLE"}
      [] name = "AWS_SECRET_ACCESS_KEY" -> {"", "s3cr3t"}
      [] name = "MLFLOW_BACKEND_STORE_URI" -> {"", "sqlite:///mlflow.db", "postgresql://db/mlflow"}
      [] name = "AWS_DEFAULT_REGION" -> {"eu-west-1"}
      [] name = "AWS_REGION" -> {"eu-west-1", "us-east-1"}
      [] name = "MLFLOW_PORT" -> {"8080"}

InitialEnvironments ==
    UNION { {e \in [D -> UNION {EnvValues(n) : n \in D}] : \A n \in D : e[n] \in EnvValues(n)} :
            D \in SUBSET EnvNames }

\* os.environ.get(name, default)
EnvGet(e, name, default) == IF name \in DOMAIN e THEN e[name] ELSE default

\* os.environ.get(name): Optional
EnvGetOpt(e, name) == IF name \in DOMAIN e THEN Some(e[name]) ELSE None

\* os.environ[name] = value
EnvSet(e, name, value) ==
    [n \in DOMAIN e \cup {name} |-> IF n = name THEN value ELSE e[n]]

IsNone(opt) == opt = None

\* `not x` for an Optional string: None and '' are falsy
Falsy(opt) == opt = None \/ opt[1] = ""

RECURSIVE Join(_)
\* ' '.join(cmd)
Join(s) ==
    IF s = <<>> THEN ""
    ELSE IF Len(s) = 1 THEN s[1]
    ELSE s[1] \o " " \o Join(Tail(s))

BuildCmdPortFromEnv(uri) ==
    << "mlflow", "server",
       "--host=0.0.0.0",
       "--port=" \o EnvGet(env, "MLFLOW_PORT", "5000"),
       "--backend-store-uri=" \o uri,
       "--artifacts-destination=s3://mlflow-bucket",
       "--default-artifact-root=mlflow-artifacts:/",
       "--serve-artifacts",
       "--allowed-hosts=*" >>

\* lines 28-37
BuildCmd(uri) ==
    << "mlflow", "server",
       "--host=0.0.0.0",
       "--port=5000",
       "--backend-store-uri=" \o uri,
       "--artifacts-destination=s3://mlflow-bucket",
       "--default-artifact-root=mlflow-artifacts:/",
       "--serve-artifacts",
       "--allowed-hosts=*" >>

ForcedEnvSetDefault(e) ==
    LET e1 == EnvSet(e, "AWS_ACCESS_KEY_ID", EnvGet(e, "AWS_ACCESS_KEY_ID", ""))
        e2 == EnvSet(e1, "AWS_SECRET_ACCESS_KEY", EnvGet(e1, "AWS_SECRET_ACCESS_KEY", ""))
        e3 == EnvSet(e2, "AWS_DEFAULT_REGION", EnvGet(e2, "AWS_DEFAULT_REGION", "us-east-1"))
    IN EnvSet(e3, "AWS_REGION", EnvGet(e3, "AWS_REGION", "us-east-1"))

\* lines 10-13
ForcedEnv(e) ==
    LET e1 == EnvSet(e, "AWS_ACCESS_KEY_ID", EnvGet(e, "AWS_ACCESS_KEY_ID", ""))
        e2 == EnvSet(e1, "AWS_SECRET_ACCESS_KEY", EnvGet(e1, "AWS_SECRET_ACCESS_KEY", ""))
        e3 == EnvSet(e2, "AWS_DEFAULT_REGION", "us-east-1")
    IN EnvSet(e3, "AWS_REGION", "us-east-1")

LLine(stream, kind, s) == [stream |-> stream, kind |-> kind, s |-> s]

LauncherInit ==
    /\ lpc = "start"
    /\ env0 \in InitialEnvironments
    /\ env = env0
    /\ backend_store_uri = None
    /\ cmd = <<>>
    /\ lout = <<>>
    /\ execs = <<>>
    /\ lexit = None

LauncherIdle ==
    /\ lpc = "not_run"
    /\ env0 = <<>>
    /\ env = <<>>
    /\ backend_store_uri = None
    /\ cmd = <<>>
    /\ lout = <<>>
    /\ execs = <<>>
    /\ lexit = None

\* lines 10-13
ForceCredentials ==
    /\ program = "launcher" /\ lpc = "start"
    /\ env' = ForcedEnv(env)
    /\ lpc' = "check_key"
    /\ UNCHANGED <<program, cvars, env0, backend_store_uri, cmd, lout, execs, lexit>>

\* lines 16-20
CheckAccessKey ==
    /\ program = "launcher" /\ lpc = "check_key"
    /\ IF Falsy(Some(env["AWS_ACCESS_KEY_ID"]))
       THEN /\ lout' = Append(lout, LLine("stderr", "error_access_key", ""))
            /\ lpc' = "exited"
            /\ lexit' = Some(1)
       ELSE /\ lout' = Append(lout, LLine("stdout", "starting", ""))
            /\ lpc' = "read_backend"
            /\ lexit' = lexit
    /\ UNCHANGED <<program, cvars, env0, env, backend_store_uri, cmd, execs>>

\* lines 23-26
ReadBackendStore ==
    /\ program = "launcher" /\ lpc = "read_backend"
    /\ backend_store_uri' = EnvGetOpt(env, "MLFLOW_BACKEND_STORE_URI")
    /\ IF Falsy(backend_store_uri')
       THEN /\ lout' = Append(lout, LLine("stderr", "error_backend_store", ""))
            /\ lpc' = "exited"
            /\ lexit' = Some(1)
       ELSE /\ lpc' = "build"
            /\ UNCHANGED <<lout, lexit>>
    /\ UNCHANGED <<program, cvars, env0, env, cmd, execs>>

\* lines 28-39
AssembleCmd ==
    /\ program = "launcher" /\ lpc = "build"
    /\ cmd' = BuildCmd(backend_store_uri[1])
    /\ lout' = Append(lout, LLine("stdout", "executing", Join(cmd')))
    /\ lpc' = "exec"
    /\ UNCHANGED <<program, cvars, env0, env, backend_store_uri, execs, lexit>>

\* line 42: os.execvp either replaces the process image, and the launcher
\* runs no further, or raises OSError (no executable mlflow on PATH); nothing
\* catches it: traceback on stderr, exit status 1.
Execvp ==
    /\ program = "launcher" /\ lpc = "exec"
    /\ \E found \in BOOLEAN :
          /\ execs' = Append(execs, [file |-> "mlflow", argv |-> cmd, environ |-> env,
                                     replaced |-> found])
          /\ IF found
             THEN lpc' = "replaced" /\ UNCHANGED <<lout, lexit>>
             ELSE /\ lpc' = "exited"
                  /\ lexit' = Some(1)
                  /\ lout' = Append(lout, LLine("stderr", "traceback", "OSError"))
    /\ UNCHANGED <<program, cvars, env0, env, backend_store_uri, cmd>>

(***************************************************************************)
(*                         Specification                                   *)
(***************************************************************************)
Init ==
    /\ program \in {"client", "launcher"}
    /\ IF program = "client" THEN ClientInit /\ LauncherIdle
                             ELSE ClientIdle /\ LauncherInit

Next ==
    \/ PrintHeader
    \/ GenerateSample
    \/ Post
    \/ PostReturns
    \/ CheckStatus
    \/ ParseResponse
    \/ DisplayPrediction
    \/ FinishSuccess
    \/ ExceptConnectionError
    \/ ExceptTimeout
    \/ ExceptException
    \/ PropagateSystemExit
    \/ PropagateInterrupt
    \/ ForceCredentials
    \/ CheckAccessKey
    \/ ReadBackendStore
    \/ AssembleCmd
    \/ Execvp

Spec == Init /\ [][Next]_vars

(***************************************************************************)
(*                            Properties                                   *)
(***************************************************************************)
\* Every step but the return of requests.post: none of them blocks, and a
\* sequential script takes the next one whenever there is one.
Sequential ==
    \/ PrintHeader
    \/ GenerateSample
    \/ Post
    \/ CheckStatus
    \/ ParseResponse
    \/ DisplayPrediction
    \/ FinishSuccess
    \/ ExceptConnectionError
    \/ ExceptTimeout
    \/ ExceptException
    \/ PropagateSystemExit
    \/ PropagateInterrupt
    \/ ForceCredentials
    \/ CheckAccessKey
    \/ ReadBackendStore
    \/ AssembleCmd
    \/ Execvp

\* A bound on the number of steps a run still takes.
StepsLeft ==
    IF program = "client"
    THEN CASE cpc = "start" -> 7 + 2 * (IF num_samples > 0 THEN num_samples ELSE 0)
           [] cpc = "generate" ->
                 6 + Len(labels) + 2 * (IF num_samples > i THEN num_samples - i ELSE 0)
           [] cpc = "posting" -> 5 + Len(labels)
           [] cpc = "check_status" -> 4 + Len(labels)
           [] cpc = "parse" -> 3 + Len(labels)
           [] cpc = "display" -> 2 + Len(labels) - k
           [] cpc = "except" -> 1
           [] cpc = "exited" -> 0
    ELSE CASE lpc = "start" -> 5
           [] lpc = "check_key" -> 4
           [] lpc = "read_backend" -> 3
           [] lpc = "build" -> 2
           [] lpc = "exec" -> 1
           [] lpc \in {"replaced", "exited"} -> 0

\* Every step brings the end of the run nearer: no run takes steps for ever.
Terminating == StepsLeft >= 0 /\ StepsLeft' < StepsLeft

Kinds(lines) == {lines[n].kind : n \in 1..Len(lines)}
LastLines(lines, n) == SubSeq(lines, Len(lines) - n + 1, Len(lines))
PredictionLines == SelectSeq(out, LAMBDA l : l.kind = "prediction")
Got200 == response # None /\ response[1].status_code = 200
Raised(cls) == exc # None /\ cls \in Mro(exc[1].cls)
ClientExited == program = "client" /\ cpc = "exited"
Blank(e, name) == name \notin DOMAIN e \/ e[name] = ""
SomeRequiredBlank ==
    Blank(env0, "AWS_ACCESS_KEY_ID") \/ Blank(env0, "MLFLOW_BACKEND_STORE_URI")

ExitedZero ==
    /\ Got200
    /\ exc = None
    /\ k = Min(Len(predictions), Len(labels))
    /\ out[Len(out)].kind = "all_completed"

C1_Outcome ==
    ClientExited =>
        /\ cexit \in {Some(0), Some(1)}
        /\ Len(sent) = 1
        /\ cexit = Some(0) <=> ExitedZero

\* C1 as stated: every run of the test client terminates, with exit status 0
\* or 1 for every outcome of the POST (any exception included), and with 0
\* only when a 200 response was received and the result loop finished.
C1_Original ==
    /\ [](C1_Outcome /\ ((program = "client" /\ cpc # "exited") => ENABLED Next))
    /\ [][Terminating]_vars

Interrupted == exc # None /\ ~Raised("Exception") /\ exc[1].cls # "SystemExit"

C1_AmendedOutcome ==
    ClientExited =>
        /\ Len(sent) = 1
        /\ cexit = Some(0) <=> ExitedZero
        /\ ~Interrupted => cexit \in {Some(0), Some(1)}
        /\ Interrupted => cexit \notin {Some(0), Some(1)}

\* C1 amended: every run in which the POST comes back with a response or an
\* exception terminates; it ends with status 0 or 1 unless the exception is
\* no Exception (a KeyboardInterrupt, which no clause catches), with 0
\* exactly when a 200 response was received and the result loop finished
\* without raising; a run whose POST never comes back stays in the call.
C1_ExitStatus ==
    /\ [](C1_AmendedOutcome)
    /\ []((program = "client" /\ cpc \notin {"posting", "exited"}) => ENABLED Sequential)
    /\ [][Terminating]_vars

\* A 200 response whose second prediction cannot be formatted: exit 1.
C1_Witness ==
    /\ ClientExited /\ Got200 /\ k = 1
    /\ Raised("ValueError")
    /\ cexit = Some(1)

\* C2 as stated: exactly `samples` vectors are sent, for every integer value
\* of --samples, negative ones included, each of length 29.
C2_Original ==
    (program = "client" /\ Len(sent) = 1) =>
        /\ Len(sent[1].instances) = num_samples
        /\ \A n \in 1..Len(sent[1].instances) : Len(sent[1].instances[n]) = 29

\* C2 amended: the request carries max(samples, 0) vectors (none for a
\* negative --samples), each of length 29, for both shapes.
C2_VectorCount ==
    (program = "client" /\ Len(sent) = 1) =>
        /\ Len(sent[1].instances) = (IF num_samples > 0 THEN num_samples ELSE 0)
        /\ Len(samples) = Len(sent[1].instances)
        /\ \A n \in 1..Len(sent[1].instances) : Len(sent[1].instances[n]) = 29

C2_Witness ==
    /\ program = "client" /\ Len(sent) = 1
    /\ num_samples >= 2
    /\ Len(sent[1].instances) = num_samples
    /\ sent[1].instances[1][1] = "randn+2"
    /\ sent[1].instances[2][1] = "randn"

\* C3: the label at index i is "Fraud-like" exactly when i % 3 = 0 and
\* "Normal-like" otherwise, the vector at index i was generated with
\* fraud=True exactly when its label is "Fraud-like", and labels and samples
\* always have the same length.
C3_Labels ==
    program = "client" =>
        /\ Len(labels) = Len(samples)
        /\ Len(fraud_args) = Len(samples)
        /\ \A idx \in 0..(Len(samples) - 1) :
              /\ labels[idx + 1] \in {"Fraud-like", "Normal-like"}
              /\ (labels[idx + 1] = "Fraud-like") <=> (idx % 3 = 0)
              /\ fraud_args[idx + 1] <=> (labels[idx + 1] = "Fraud-like")
              /\ (samples[idx + 1][1] = "randn+2") <=> (labels[idx + 1] = "Fraud-like")
              /\ (samples[idx + 1][29] = "gamma(3,100)") <=> (labels[idx + 1] = "Fraud-like")

C3_Witness ==
    /\ program = "client" /\ Len(labels) = 4
    /\ labels = <<"Fraud-like", "Normal-like", "Normal-like", "Fraud-like">>

\* C4: after a response whose status is not 200 the client prints the status
\* code and the response body, prints no prediction line and no success
\* message, and exits with code 1: the SystemExit reaches the interpreter
\* through no except clause.
C4_Non200 ==
    (ClientExited /\ response # None /\ response[1].status_code # 200) =>
        /\ cexit = Some(1)
        /\ exc = Some(Exc("SystemExit", 1))
        /\ LastLines(out, 2) =
              <<Line("failed_status", response[1].status_code, "", ""),
                Line("response_text", 0, response[1].text, "")>>
        /\ Kinds(out) \cap {"prediction", "all_completed", "request_ok", "error",
                            "timeout", "connection_error", "port_forward_hint"} = {}

C4_Witness ==
    /\ ClientExited /\ response # None
    /\ response[1].status_code = 503 /\ response[1].text = "model not ready"
    /\ cexit = Some(1)

HintShown == "port_forward_hint" \in Kinds(out)

C5_OnConnectionFailure ==
    Raised("ConnectionError") =>
        /\ LastLines(out, 4) = <<L("connection_error"), L("blank"),
                                 L("port_forward_intro"), L("port_forward_hint")>>
        /\ cexit = Some(1)

\* C5 as stated: a connection failure prints the diagnostic and the hint and
\* exits 1, and the hint is printed in no other outcome: not on a timeout,
\* not on a non-200 response, not on any other exception.
C5_Original ==
    ClientExited =>
        /\ C5_OnConnectionFailure
        /\ HintShown => /\ Raised("ConnectionError")
                        /\ ~Raised("Timeout")
                        /\ response = None

\* C5 amended: the hint is printed exactly when the exception raised by the
\* POST is a requests ConnectionError, which includes a connect timeout
\* (ConnectTimeout is both a ConnectionError and a Timeout); it is printed on
\* no timeout that is not a connect timeout, on no response, on no other
\* exception.
C5_Hint ==
    ClientExited =>
        /\ C5_OnConnectionFailure
        /\ HintShown <=> Raised("ConnectionError")
        /\ HintShown => response = None
        /\ (Raised("Timeout") /\ ~Raised("ConnectionError")) =>
              /\ ~HintShown
              /\ out[Len(out)] = L("timeout")
              /\ cexit = Some(1)

C5_Witness ==
    /\ ClientExited /\ exc = Some(Exc("ConnectTimeout", 0))
    /\ HintShown /\ cexit = Some(1)

C6_OriginalOutcome ==
    program = "launcher" =>
        /\ lpc = "exited" => (lexit = Some(1) /\ SomeRequiredBlank /\ execs = <<>>)
        /\ lpc = "replaced" => (lexit = None /\ ~SomeRequiredBlank /\ Len(execs) = 1)
        /\ lexit # None => lpc = "exited"

\* C6 as stated: the run ends in exit 1 if and only if AWS_ACCESS_KEY_ID or
\* MLFLOW_BACKEND_STORE_URI is unset or empty in the initial environment, and
\* otherwise reaches os.execvp.
C6_Original ==
    /\ [](C6_OriginalOutcome)
    /\ []((program = "launcher" /\ lpc \notin {"exited", "replaced"}) => ENABLED Next)
    /\ [][Terminating]_vars

C6_Outcome ==
    program = "launcher" =>
        /\ (lpc = "exited" /\ execs = <<>>) => (lexit = Some(1) /\ SomeRequiredBlank)
        /\ execs # <<>> => (~SomeRequiredBlank /\ Len(execs) = 1)
        /\ (lpc = "exited" /\ execs # <<>>) => (lexit = Some(1) /\ ~execs[1].replaced)
        /\ lpc = "replaced" => (lexit = None /\ execs # <<>> /\ execs[1].replaced)
        /\ lexit # None => lpc = "exited"

\* C6 amended: the launcher exits with status 1 without calling os.execvp
\* exactly when AWS_ACCESS_KEY_ID or MLFLOW_BACKEND_STORE_URI is unset or
\* empty in the initial environment; in every other environment it calls
\* os.execvp, which replaces the process or raises OSError, and the uncaught
\* OSError also ends the run with status 1. Nothing else in the environment
\* decides whether os.execvp is called.
C6_ExitPrecisely ==
    /\ [](C6_Outcome)
    /\ []((program = "launcher" /\ lpc \notin {"exited", "replaced"}) => ENABLED Sequential)
    /\ [][Terminating]_vars

\* Access key present, secret unset, backend store URI set but empty: exit 1.
C6_Witness ==
    /\ program = "launcher" /\ lpc = "exited" /\ lexit = Some(1)
    /\ ~Blank(env0, "AWS_ACCESS_KEY_ID")
    /\ "AWS_SECRET_ACCESS_KEY" \notin DOMAIN env0
    /\ "MLFLOW_BACKEND_STORE_URI" \in DOMAIN env0

\* C7: the argument list handed to os.execvp is the fixed list, in order, in
\* which only the backend-store-uri value comes from the environment.
C7_FixedCmd ==
    (program = "launcher" /\ Len(execs) = 1) =>
        /\ execs[1].file = "mlflow"
        /\ execs[1].argv =
              << "mlflow", "server", "--host=0.0.0.0", "--port=5000",
                 "--backend-store-uri=" \o env0["MLFLOW_BACKEND_STORE_URI"],
                 "--artifacts-destination=s3://mlflow-bucket",
                 "--default-artifact-root=mlflow-artifacts:/",
                 "--serve-artifacts", "--allowed-hosts=*" >>

C7_Witness ==
    /\ program = "launcher" /\ Len(execs) = 1
    /\ "MLFLOW_PORT" \in DOMAIN env0
    /\ "AWS_SECRET_ACCESS_KEY" \notin DOMAIN env0
    /\ env0["MLFLOW_BACKEND_STORE_URI"] = "postgresql://db/mlflow"

DocumentedShape(p) == p.t = "num" \/ (p.t = "list" /\ Len(p.items) = 2 /\ p.items[2].t = "num")
Probability(p) == IF p.t = "num" THEN p ELSE p.items[2]

\* C8: on a 200 response, whatever the length of the returned list, every
\* returned entry n of a documented shape yields a result line pairing its
\* probability with the label of sample n, and the success message is printed
\* only after a line was printed for every sample sent.
C8_EachPrediction ==
    (ClientExited /\ Got200 /\ response[1].json.shape = "object"
       /\ response[1].json.iterable) =>
        /\ \A n \in 1..Len(response[1].json.preds) :
              (\A m \in 1..n : DocumentedShape(response[1].json.preds[m])) =>
                  /\ n <= Len(labels)
                  /\ \E l \in 1..Len(out) :
                        /\ out[l].kind = "prediction"
                        /\ out[l].n = n
                        /\ out[l].s = Pad(labels[n], 12)
                        /\ out[l].p = Format4f(Probability(response[1].json.preds[n])).shown
        /\ "all_completed" \in Kinds(out) => Len(PredictionLines) = Len(sent[1].instances)

C9_State ==
    /\ Len(sent) <= 1
    /\ Len(execs) <= 1
    /\ ClientExited => (Len(sent) = 1 /\ sent[1].instances = samples)
    /\ (response # None \/ exc # None) => Len(sent) = 1
    /\ Len(execs) = 1 =>
          /\ lpc \in {"replaced", "exited"}
          /\ lpc = "replaced" => lexit = None
          /\ env["AWS_ACCESS_KEY_ID"] # ""
          /\ backend_store_uri # None /\ backend_store_uri[1] # ""

C9_Step ==
    /\ sent' # sent => (sent = <<>> /\ cpc = "generate" /\ Len(samples) = i)
    /\ execs' # execs => (execs = <<>> /\ lpc = "exec")
    /\ execs # <<>> => UNCHANGED lvars
    /\ cpc = "exited" => UNCHANGED cvars

\* C9: the client issues exactly one POST, carrying all generated vectors,
\* and none after it returned or raised; the launcher calls os.execvp at most
\* once, only after both checks passed, and takes no step after it.
C9_OneShot == [](C9_State) /\ [][C9_Step]_vars

C9_Witness ==
    /\ ClientExited /\ exc = Some(Exc("ReadTimeout", 0))
    /\ Len(sent) = 1 /\ Len(sent[1].instances) = 3

ForcedNames ==
    {"AWS_ACCESS_KEY_ID", "AWS_SECRET_ACCESS_KEY", "AWS_DEFAULT_REGION", "AWS_REGION"}

\* C10: in the environment handed to the replaced process both region
\* variables are 'us-east-1' whatever they were, AWS_ACCESS_KEY_ID keeps its
\* non-empty value, AWS_SECRET_ACCESS_KEY keeps its value or is '' when it
\* was unset, and every other variable is as it was.
C10_EnvEffect ==
    (program = "launcher" /\ Len(execs) = 1) =>
        LET e == execs[1].environ
        IN /\ DOMAIN e = DOMAIN env0 \cup ForcedNames
           /\ e["AWS_DEFAULT_REGION"] = "us-east-1"
           /\ e["AWS_REGION"] = "us-east-1"
           /\ "AWS_ACCESS_KEY_ID" \in DOMAIN env0
           /\ e["AWS_ACCESS_KEY_ID"] = env0["AWS_ACCESS_KEY_ID"]
           /\ e["AWS_ACCESS_KEY_ID"] # ""
           /\ e["AWS_SECRET_ACCESS_KEY"] =
                 (IF "AWS_SECRET_ACCESS_KEY" \in DOMAIN env0
                  THEN env0["AWS_SECRET_ACCESS_KEY"] ELSE "")
           /\ \A n \in DOMAIN e \ ForcedNames : n \in DOMAIN env0 /\ e[n] = env0[n]

C10_Witness ==
    /\ program = "launcher" /\ Len(execs) = 1
    /\ "AWS_REGION" \in DOMAIN env0 /\ env0["AWS_REGION"] = "eu-west-1"
    /\ "AWS_DEFAULT_REGION" \in DOMAIN env0
    /\ "AWS_SECRET_ACCESS_KEY" \notin DOMAIN env0
    /\ "MLFLOW_PORT" \in DOMAIN env0

====
